---- MODULE Spec2Model ----
(***************************************************************************)
(* A model of the D-Bus client connection engine of src/dbus.go: the       *)
(* authentication handshake, the receive buffer, the receiver and run-loop *)
(* goroutines, the reply registry (methodCallReplies) and the blocking     *)
(* _SendSync bridge, and the Object / Interface / CallMethod proxy layer.  *)
(*                                                                         *)
(* The codec (_Marshal / _Unmarshal), NewMessage and the introspection     *)
(* parser are not part of src/dbus.go; they are modelled from their        *)
(* documented contracts.                                                   *)
(***************************************************************************)
EXTENDS Naturals, Sequences, FiniteSets

VARIABLES
  wireIn,             \* bytes the peer has written that the client has not read yet
  wireOut,            \* everything the client has written to conn, in order
  authResp,           \* history: the handshake response line the peer sent (<<>>: none yet)
  peerSent,           \* history: number of frames the peer has sent
  stream,             \* history: every byte the peer has written after the handshake
  dispatched,         \* history: the messages _MessageDispatch was entered with, in order
  guid,               \* Connection.guid
  uniqName,           \* Connection.uniqName
  authErr,            \* what _Auth returned ("unset" until it has returned)
  initRet,            \* what Initialize returned ("unset" until it has returned)
  methodCallReplies,  \* Connection.methodCallReplies: uint32 -> reply closure
  inReg,              \* the goroutines that are inside a map operation on methodCallReplies
  raced,              \* those of inReg whose operation has overlapped another one
  buffer,             \* Connection.buffer
  rpc,                \* position of the _MessageReceiver goroutine
  rmsg,               \* the message _MessageReceiver holds for msgChan
  dpc,                \* position of the _RunLoop goroutine
  dmsg,               \* the message _MessageDispatch is working on
  dfunc,              \* the replyFunc _MessageDispatch found
  pc,                 \* position of each caller goroutine
  kind,               \* which operation each caller is in
  serial,             \* msg.serial of each caller's current call
  intro,              \* the local variable intro of _GetIntrospect
  obj,                \* the Object each caller holds (result of GetObject)
  ret,                \* what each caller's last CallMethod returned ("unset": none since GetObject)
  messageSerial,      \* the serial counter behind NewMessage
  invoked,            \* history: per call serial, how often its callback ran
  signalled,          \* history: per call serial, how often its recvChan was signalled
  delivered,          \* history: <<call serial, replySerial>> of each callback invocation
  crashed             \* the process died of a run-time panic

vars == <<wireIn, wireOut, authResp, peerSent, stream, dispatched, guid, uniqName, authErr, initRet,
          methodCallReplies, inReg, raced, buffer, rpc, rmsg, dpc, dmsg, dfunc,
          pc, kind, serial, intro, obj, ret, messageSerial,
          invoked, signalled, delivered, crashed>>

----------------------------------------------------------------------------
(* Bounds of the model. *)

\* total number of calls (NewMessage) the callers issue
MaxSerial == 3
\* total number of frames (or stray bytes) the peer sends after the handshake
MaxSent == 3

(* Program constants. *)

\* make([]byte, 1000) in _Auth
AuthBufLen == 1000
\* make([]byte, 4096) in _UpdateBuffer
ReadBufLen == 4096
\* 2^16: uint32 is two halves of 16 bits
Half == 65536

Callers == {"c1", "c2"}
\* the goroutine that calls Initialize
Initializer == "c1"
Dispatcher == "disp"
Serials == 1..(MaxSerial + 1)

Min(a, b) == IF a <= b THEN a ELSE b

----------------------------------------------------------------------------
(* Bytes on the transport.  One element stands for one field of the wire  *)
(* format: a handshake character, a frame header, a body length, one      *)
(* parameter, or a byte that is none of these.                            *)

Chr(c) == [k |-> "chr", a |-> c, b |-> 0]
Hdr(t, rs) == [k |-> "hdr", a |-> t, b |-> rs]
LenU(n) == [k |-> "len", a |-> "", b |-> n]
Arg(v) == [k |-> "arg", a |-> v, b |-> 0]
Txt(s) == [k |-> "txt", a |-> s, b |-> 0]
CallFrame(member, s) == [k |-> "call", a |-> member, b |-> s]

Text(s) == [i \in 1..Len(s) |-> Chr(s[i])]

NUL == Chr("NUL")

\* message types of the protocol
METHOD_CALL == "METHOD_CALL"
METHOD_RETURN == "METHOD_RETURN"
ERROR == "ERROR"
SIGNAL == "SIGNAL"

Msg(t, rs, params) == [type |-> t, replySerial |-> rs, params |-> params]
NoMsg == Msg("NONE", 0, <<>>)

\* Message._Marshal: header, body length, parameters
_Marshal(m) ==
  <<Hdr(m.type, m.replySerial), LenU(Len(m.params))>>
    \o [i \in 1..Len(m.params) |-> Arg(m.params[i])]

\* _Unmarshal: (msg, n, err) for the bytes at the front of b
_Unmarshal(b) ==
  IF Len(b) = 0 THEN [err |-> "incomplete", msg |-> NoMsg, n |-> 0]
  ELSE IF b[1].k # "hdr" THEN [err |-> "malformed", msg |-> NoMsg, n |-> 0]
  ELSE IF Len(b) = 1 THEN [err |-> "incomplete", msg |-> NoMsg, n |-> 0]
  ELSE IF b[2].k # "len" THEN [err |-> "malformed", msg |-> NoMsg, n |-> 0]
  ELSE IF \E i \in 3..Min(Len(b), 2 + b[2].b) : b[i].k # "arg"
         THEN [err |-> "malformed", msg |-> NoMsg, n |-> 0]
  ELSE IF Len(b) < 2 + b[2].b THEN [err |-> "incomplete", msg |-> NoMsg, n |-> 0]
  ELSE [err |-> "nil",
        msg |-> Msg(b[1].a, b[1].b, [i \in 1..b[2].b |-> b[i + 2].a]),
        n |-> 2 + b[2].b]

\* a variant of BufferRead that empties the buffer
BufferRead_All(buf, n) == <<>>

\* bytes.Buffer.Read(p) with len(p) = n: drops min(n, Len) bytes from the front
BufferRead(buf, n) == SubSeq(buf, Min(n, Len(buf)) + 1, Len(buf))

\* uint32(x) for x >= 0: x modulo 2^32, computed on the two 16-bit halves
ToUint32(x) == (x % Half) + Half * ((x \div Half) % Half)

----------------------------------------------------------------------------
(* The handshake text. *)

HexDigits == {"a", "1"}

\* the regular expression ^OK ([0-9a-fA-F]+) of _Auth
RegexpOK(s) ==
  /\ Len(s) >= 4
  /\ s[1] = Chr("O") /\ s[2] = Chr("K") /\ s[3] = Chr(" ")
  /\ s[4].a \in HexDigits

\* the end of the first group of a match: the hex digits are taken greedily
RECURSIVE GroupEnd(_, _)
GroupEnd(s, i) ==
  IF i < Len(s) /\ s[i + 1].a \in HexDigits THEN GroupEnd(s, i + 1) ELSE i

\* retstr[m[2]:m[3]]
Group1(s) == [i \in 1..(GroupEnd(s, 4) - 3) |-> s[i + 3].a]

\* string(b) for the 1000-byte b of which the first Len(chunk) were read:
\* the rest of b is zero bytes (one is kept to stand for them)
ToString(chunk) == IF Len(chunk) < AuthBufLen THEN chunk \o <<NUL>> ELSE chunk

----------------------------------------------------------------------------
(* Values of the object model. *)

\* an Introspect value: "nil" (no value), or "echo": the metadata of an object
\* with the one interface com.example.Echo and its one method Ping
NilIntro == "nil"
EchoIntro == "echo"
NoObject == "none"

IntfNames == {"com.example.Echo", "org.example.Missing"}
MethodNames == {"Ping", "Pong"}

\* NewIntrospect(v): the parsed metadata, or an error (reported as NilIntro)
NewIntrospect(v) == IF v = "xml" THEN EchoIntro ELSE NilIntro
\* Introspect.GetInterfaceData(name) # nil
HasInterfaceData(in, name) == in = EchoIntro /\ name = "com.example.Echo"
\* InterfaceData.GetMethodData(name) # nil
HasMethodData(in, intf, name) == HasInterfaceData(in, intf) /\ name = "Ping"

\* the reply closure _SendSync stores: whose call it completes
Closure(c, s, kd) == [c |-> c, call |-> s, kind |-> kd]
NoFunc == Closure("none", 0, "none")
EmptyMap == [s \in {} |-> NoFunc]

MapPut(m, key, f) == [x \in DOMAIN m \cup {key} |-> IF x = key THEN f ELSE m[x]]
MapDelete(m, key) == [x \in DOMAIN m \ {key} |-> m[x]]

\* msg.Member of each kind of call; a CallMethod call is known by the
\* method name it was given
Member(kd) == CASE kd = "hello" -> "Hello"
                [] kd = "introspect" -> "Introspect"
                [] OTHER -> kd

\* NewMessage: the next value of the serial counter
NewMessage(counter) == counter + 1

\* entering and leaving a map operation on methodCallReplies; operations
\* that overlap are marked, as nothing orders them
EnterReg(p) ==
  /\ inReg' = inReg \cup {p}
  /\ raced' = IF inReg # {} THEN raced \cup inReg \cup {p} ELSE raced
LeaveReg(p) ==
  /\ inReg' = inReg \ {p}
  /\ raced' = raced \ {p}

----------------------------------------------------------------------------
Init ==
  /\ wireIn = <<>> /\ wireOut = <<>> /\ authResp = <<>> /\ peerSent = 0
  /\ stream = <<>> /\ dispatched = <<>>
  /\ guid = <<>> /\ uniqName = ""
  /\ authErr = "unset" /\ initRet = "unset"
  /\ methodCallReplies = EmptyMap /\ inReg = {} /\ raced = {}
  /\ buffer = <<>>
  /\ rpc = "off" /\ rmsg = NoMsg
  /\ dpc = "off" /\ dmsg = NoMsg /\ dfunc = NoFunc
  /\ pc = [c \in Callers |-> IF c = Initializer THEN "new" ELSE "idle"]
  /\ kind = [c \in Callers |-> "none"]
  /\ serial = [c \in Callers |-> 0]
  /\ intro = [c \in Callers |-> NilIntro]
  /\ obj = [c \in Callers |-> NoObject]
  /\ ret = [c \in Callers |-> "unset"]
  /\ messageSerial = 0
  /\ invoked = [s \in Serials |-> 0]
  /\ signalled = [s \in Serials |-> 0]
  /\ delivered = {}
  /\ crashed = FALSE

connVars == <<guid, uniqName, authErr, initRet>>
regVars == <<methodCallReplies, inReg, raced>>
recvVars == <<buffer, rpc, rmsg>>
dispVars == <<dpc, dmsg, dfunc>>
callVars == <<pc, kind, serial, intro, obj, ret, messageSerial>>
histVars == <<invoked, signalled, delivered, stream, dispatched>>

----------------------------------------------------------------------------
(* Initialize and _Auth *)

\* Initialize up to the read of _Auth: make the map and the buffer, write
\* the NUL byte and the AUTH EXTERNAL line
Initialize_Start ==
  /\ ~crashed
  /\ pc[Initializer] = "new"
  /\ methodCallReplies' = EmptyMap
  /\ buffer' = <<>>
  /\ wireOut' = wireOut \o <<Txt("NUL"), Txt("AUTH")>>
  /\ pc' = [pc EXCEPT ![Initializer] = "auth"]
  /\ UNCHANGED <<wireIn, authResp, peerSent, connVars, inReg, raced, rpc, rmsg,
                 dispVars, kind, serial, intro, obj, ret, messageSerial,
                 histVars, crashed>>

\* the peer answers the AUTH line
PeerAuthRespond(resp) ==
  /\ ~crashed
  /\ pc[Initializer] = "auth"
  /\ authResp = <<>>
  /\ authResp' = Text(resp)
  /\ wireIn' = wireIn \o Text(resp)
  /\ UNCHANGED <<wireOut, peerSent, connVars, regVars, recvVars, dispVars,
                 callVars, histVars, crashed>>

\* a variant of _Auth that writes BEGIN whatever the response was
_Auth_AlwaysBegin(retstr) ==
  IF RegexpOK(retstr)
    THEN [guid |-> Group1(retstr), begin |-> TRUE, err |-> "nil"]
    ELSE [guid |-> <<>>, begin |-> TRUE, err |-> "Auth Failed"]

\* _Auth from the match on: the guid stored, whether BEGIN is written, the error
_Auth(retstr) ==
  IF RegexpOK(retstr)
    THEN [guid |-> Group1(retstr), begin |-> TRUE, err |-> "nil"]
    ELSE [guid |-> <<>>, begin |-> FALSE, err |-> "Auth Failed"]

\* _Auth: one Read of up to 1000 bytes, of which k arrive, and what follows
_Auth_Read(k) ==
  /\ ~crashed
  /\ pc[Initializer] = "auth"
  /\ k \in 1..Min(Len(wireIn), AuthBufLen)
  /\ LET r == _Auth(ToString(SubSeq(wireIn, 1, k))) IN
       /\ guid' = IF r.err = "nil" THEN r.guid ELSE guid
       /\ wireOut' = IF r.begin THEN Append(wireOut, Txt("BEGIN")) ELSE wireOut
       /\ authErr' = r.err
  /\ wireIn' = SubSeq(wireIn, k + 1, Len(wireIn))
  /\ pc' = [pc EXCEPT ![Initializer] = "goloop"]
  /\ UNCHANGED <<authResp, peerSent, uniqName, initRet, regVars, recvVars,
                 dispVars, kind, serial, intro, obj, ret, messageSerial,
                 histVars, crashed>>

\* Initialize after _Auth, whose result it does not look at: start _RunLoop
\* (which starts _MessageReceiver) and enter _SendHello, which builds the
\* Hello message
Initialize_Continue ==
  /\ ~crashed
  /\ pc[Initializer] = "goloop"
  /\ rpc' = "pop"
  /\ dpc' = "recv"
  /\ messageSerial' = NewMessage(messageSerial)
  /\ serial' = [serial EXCEPT ![Initializer] = messageSerial']
  /\ kind' = [kind EXCEPT ![Initializer] = "hello"]
  /\ pc' = [pc EXCEPT ![Initializer] = "reg"]
  /\ UNCHANGED <<wireIn, wireOut, authResp, peerSent, connVars,
                 regVars, buffer, rmsg, dmsg, dfunc, intro, obj, ret,
                 histVars, crashed>>

----------------------------------------------------------------------------
(* _SendSync *)

\* a variant of RegistryKey with a key narrower than the serial (of one bit,
\* as the serials of the model are small)
RegistryKey_Narrow(msgSerial) == msgSerial % 2

\* the key _SendSync registers under: seri := uint32(msg.serial)
RegistryKey(msgSerial) == ToUint32(msgSerial)

\* _SendSync reaches the map assignment
_SendSync_Register(c) ==
  /\ ~crashed
  /\ pc[c] = "reg"
  /\ EnterReg(c)
  /\ pc' = [pc EXCEPT ![c] = "ins"]
  /\ UNCHANGED <<wireIn, wireOut, authResp, peerSent, connVars,
                 methodCallReplies, recvVars, dispVars, kind, serial, intro,
                 obj, ret, messageSerial, histVars, crashed>>

\* the map assignment completes; one that overlapped another map operation
\* may be lost
_SendSync_Registered(c, lost) ==
  /\ ~crashed
  /\ pc[c] = "ins"
  /\ lost => c \in raced
  /\ methodCallReplies' =
       IF lost THEN methodCallReplies
       ELSE MapPut(methodCallReplies, RegistryKey(serial[c]),
                   Closure(c, serial[c], kind[c]))
  /\ LeaveReg(c)
  /\ pc' = [pc EXCEPT ![c] = "write"]
  /\ UNCHANGED <<wireIn, wireOut, authResp, peerSent, connVars, recvVars,
                 dispVars, kind, serial, intro, obj, ret, messageSerial,
                 histVars, crashed>>

\* msg._Marshal() and conn.Write; then the caller blocks on recvChan
_SendSync_Write(c) ==
  /\ ~crashed
  /\ pc[c] = "write"
  /\ wireOut' = Append(wireOut, CallFrame(Member(kind[c]), serial[c]))
  /\ pc' = [pc EXCEPT ![c] = "wait"]
  /\ UNCHANGED <<wireIn, authResp, peerSent, connVars, regVars, recvVars,
                 dispVars, kind, serial, intro, obj, ret, messageSerial,
                 histVars, crashed>>

----------------------------------------------------------------------------
(* _MessageReceiver, _PopMessage, _UpdateBuffer *)

\* _PopMessage: (msg, err) and the buffer it leaves
_PopMessage(buf) ==
  LET u == _Unmarshal(buf) IN
    IF u.err # "nil"
      THEN [msg |-> NoMsg, err |-> u.err, buffer |-> buf]
      ELSE [msg |-> u.msg, err |-> "nil", buffer |-> BufferRead(buf, u.n)]

\* the loop of _MessageReceiver on a buffer that holds all of b: the messages
\* it pops one after the other until a pop fails
RECURSIVE PopAll(_)
PopAll(b) ==
  LET r == _PopMessage(b) IN
    IF r.err # "nil" THEN <<>> ELSE <<r.msg>> \o PopAll(r.buffer)

\* _MessageReceiver calls _PopMessage
_MessageReceiver_Pop ==
  /\ ~crashed
  /\ rpc = "pop"
  /\ LET r == _PopMessage(buffer) IN
       /\ buffer' = r.buffer
       /\ rmsg' = r.msg
       /\ rpc' = IF r.err = "nil" THEN "send" ELSE "read"
  /\ UNCHANGED <<wireIn, wireOut, authResp, peerSent, connVars, regVars,
                 dispVars, callVars, histVars, crashed>>

\* a variant of _UpdateBuffer that keeps only the bytes of the last Read
_UpdateBuffer_Overwrite(k) ==
  /\ ~crashed
  /\ rpc = "read"
  /\ k \in 1..Min(Len(wireIn), ReadBufLen)
  /\ buffer' = SubSeq(wireIn, 1, k)
  /\ wireIn' = SubSeq(wireIn, k + 1, Len(wireIn))
  /\ rpc' = "pop"
  /\ UNCHANGED <<wireOut, authResp, peerSent, connVars, regVars, rmsg,
                 dispVars, callVars, histVars, crashed>>

\* _UpdateBuffer: one Read of up to 4096 bytes, of which k arrive
_UpdateBuffer(k) ==
  /\ ~crashed
  /\ rpc = "read"
  /\ k \in 1..Min(Len(wireIn), ReadBufLen)
  /\ buffer' = buffer \o SubSeq(wireIn, 1, k)
  /\ wireIn' = SubSeq(wireIn, k + 1, Len(wireIn))
  /\ rpc' = "pop"
  /\ UNCHANGED <<wireOut, authResp, peerSent, connVars, regVars, rmsg,
                 dispVars, callVars, histVars, crashed>>

----------------------------------------------------------------------------
(* _RunLoop and _MessageDispatch *)

\* a variant of _MessageDispatch_Find that matches replies by order: the
\* oldest entry takes the reply
_MessageDispatch_FindOldest(m, rs) ==
  IF DOMAIN m # {}
    THEN m[CHOOSE x \in DOMAIN m : \A y \in DOMAIN m : x <= y]
    ELSE NoFunc

\* the map lookup of _MessageDispatch
_MessageDispatch_Find(m, rs) == IF rs \in DOMAIN m THEN m[rs] ELSE NoFunc

\* the callback of _GetIntrospect: the new value of its variable intro
_GetIntrospect_Callback(reply, cur) ==
  IF Len(reply.params) >= 1 /\ NewIntrospect(reply.params[1]) # NilIntro
    THEN NewIntrospect(reply.params[1])
    ELSE cur

\* a variant of _RunLoop_Receive that takes the next message off msgChan
\* while _MessageDispatch is still at work on the one before
_RunLoop_Receive_NoWait ==
  /\ ~crashed
  /\ rpc = "send" /\ dpc # "off"
  /\ rpc' = "pop" /\ rmsg' = NoMsg
  /\ dispatched' = Append(dispatched, rmsg)
  /\ IF rmsg.type = METHOD_RETURN
       THEN /\ dmsg' = rmsg
            /\ dpc' = "lookup"
            /\ EnterReg(Dispatcher)
       ELSE /\ dmsg' = NoMsg
            /\ dpc' = "recv"
            /\ UNCHANGED <<inReg, raced>>
  /\ UNCHANGED <<wireIn, wireOut, authResp, peerSent, connVars,
                 methodCallReplies, buffer, dfunc, callVars, invoked,
                 signalled, delivered, stream, crashed>>

\* a variant of _RunLoop_Receive in which _MessageReceiver, once msgChan
\* has taken its message, goes to _UpdateBuffer instead of popping again
_RunLoop_Receive_ThenRead ==
  /\ ~crashed
  /\ rpc = "send" /\ dpc = "recv"
  /\ rpc' = "read" /\ rmsg' = NoMsg
  /\ dispatched' = Append(dispatched, rmsg)
  /\ IF rmsg.type = METHOD_RETURN
       THEN /\ dmsg' = rmsg
            /\ dpc' = "lookup"
            /\ EnterReg(Dispatcher)
       ELSE /\ dmsg' = NoMsg
            /\ dpc' = "recv"
            /\ UNCHANGED <<inReg, raced>>
  /\ UNCHANGED <<wireIn, wireOut, authResp, peerSent, connVars,
                 methodCallReplies, buffer, dfunc, callVars, invoked,
                 signalled, delivered, stream, crashed>>

\* a variant of _RunLoop_Receive that sends an ERROR frame through the map
\* lookup as it does a METHOD_RETURN
_RunLoop_Receive_ErrorAsReply ==
  /\ ~crashed
  /\ rpc = "send" /\ dpc = "recv"
  /\ rpc' = "pop" /\ rmsg' = NoMsg
  /\ dispatched' = Append(dispatched, rmsg)
  /\ IF rmsg.type \in {METHOD_RETURN, ERROR}
       THEN /\ dmsg' = rmsg
            /\ dpc' = "lookup"
            /\ EnterReg(Dispatcher)
       ELSE /\ dmsg' = NoMsg
            /\ dpc' = "recv"
            /\ UNCHANGED <<inReg, raced>>
  /\ UNCHANGED <<wireIn, wireOut, authResp, peerSent, connVars,
                 methodCallReplies, buffer, dfunc, callVars, invoked,
                 signalled, delivered, stream, crashed>>

\* msgChan hands a message from _MessageReceiver to _RunLoop, which enters
\* _MessageDispatch: a METHOD_RETURN goes on to the map lookup, an ERROR is
\* printed, any other type falls through the switch
_RunLoop_Receive ==
  /\ ~crashed
  /\ rpc = "send" /\ dpc = "recv"
  /\ rpc' = "pop" /\ rmsg' = NoMsg
  /\ dispatched' = Append(dispatched, rmsg)
  /\ IF rmsg.type = METHOD_RETURN
       THEN /\ dmsg' = rmsg
            /\ dpc' = "lookup"
            /\ EnterReg(Dispatcher)
       ELSE /\ dmsg' = NoMsg
            /\ dpc' = "recv"
            /\ UNCHANGED <<inReg, raced>>
  /\ UNCHANGED <<wireIn, wireOut, authResp, peerSent, connVars,
                 methodCallReplies, buffer, dfunc, callVars, invoked,
                 signalled, delivered, stream, crashed>>

\* the lookup completes; if it found a replyFunc, replyFunc runs the caller's
\* callback and then blocks sending on recvChan
_MessageDispatch_Lookup ==
  /\ ~crashed
  /\ dpc = "lookup"
  /\ LeaveReg(Dispatcher)
  /\ LET f == _MessageDispatch_Find(methodCallReplies, dmsg.replySerial) IN
       IF f # NoFunc
         THEN /\ dfunc' = f
              /\ dpc' = "signal"
              /\ invoked' = [invoked EXCEPT ![f.call] = @ + 1]
              /\ delivered' = delivered \cup {<<f.call, dmsg.replySerial>>}
              /\ intro' = IF f.kind = "introspect" /\ serial[f.c] = f.call
                            THEN [intro EXCEPT ![f.c] =
                                    _GetIntrospect_Callback(dmsg, @)]
                            ELSE intro
              /\ UNCHANGED dmsg
         ELSE /\ dpc' = "recv"
              /\ dmsg' = NoMsg
              /\ UNCHANGED <<dfunc, invoked, delivered, intro>>
  /\ UNCHANGED <<wireIn, wireOut, authResp, peerSent, connVars,
                 methodCallReplies, recvVars, pc, kind, serial, obj, ret,
                 messageSerial, signalled, stream, dispatched, crashed>>

\* recvChan hands the signal to the caller blocked in _SendSync, which
\* returns to its operation: Initialize returns nil, GetObject returns the
\* Object with the intro it got, CallMethod returns nil.  replyFunc returns
\* and _MessageDispatch reaches the map deletion
_MessageDispatch_Signal ==
  /\ ~crashed
  /\ dpc = "signal"
  /\ LET c == dfunc.c IN
       /\ pc[c] = "wait" /\ serial[c] = dfunc.call
       /\ signalled' = [signalled EXCEPT ![dfunc.call] = @ + 1]
       /\ pc' = [pc EXCEPT ![c] = "idle"]
       /\ serial' = [serial EXCEPT ![c] = 0]
       /\ kind' = [kind EXCEPT ![c] = "none"]
       /\ initRet' = IF kind[c] = "hello" THEN "nil" ELSE initRet
       /\ obj' = IF kind[c] = "introspect" THEN [obj EXCEPT ![c] = intro[c]]
                 ELSE obj
       /\ ret' = IF kind[c] \in MethodNames THEN [ret EXCEPT ![c] = "nil"] ELSE ret
  /\ dpc' = "delete"
  /\ EnterReg(Dispatcher)
  /\ UNCHANGED <<wireIn, wireOut, authResp, peerSent, guid, uniqName, authErr,
                 methodCallReplies, recvVars, dmsg, dfunc, intro,
                 messageSerial, invoked, delivered, stream, dispatched, crashed>>

\* the map deletion completes; one that overlapped another map operation may
\* be lost
_MessageDispatch_Delete(lost) ==
  /\ ~crashed
  /\ dpc = "delete"
  /\ lost => Dispatcher \in raced
  /\ methodCallReplies' =
       IF lost THEN methodCallReplies
       ELSE MapDelete(methodCallReplies, dmsg.replySerial)
  /\ LeaveReg(Dispatcher)
  /\ dpc' = "recv" /\ dmsg' = NoMsg /\ dfunc' = NoFunc
  /\ UNCHANGED <<wireIn, wireOut, authResp, peerSent, connVars, recvVars,
                 callVars, histVars, crashed>>

----------------------------------------------------------------------------
(* GetObject, Interface, CallMethod *)

\* GetObject enters _GetIntrospect, which builds the Introspect message and
\* declares intro; the Object is returned when _SendSync returns
GetObject(c) ==
  /\ ~crashed
  /\ pc[c] = "idle" /\ initRet = "nil"
  /\ messageSerial < MaxSerial
  /\ messageSerial' = NewMessage(messageSerial)
  /\ serial' = [serial EXCEPT ![c] = messageSerial']
  /\ kind' = [kind EXCEPT ![c] = "introspect"]
  /\ intro' = [intro EXCEPT ![c] = NilIntro]
  /\ ret' = [ret EXCEPT ![c] = "unset"]
  /\ pc' = [pc EXCEPT ![c] = "reg"]
  /\ UNCHANGED <<wireIn, wireOut, authResp, peerSent, connVars, regVars,
                 recvVars, dispVars, obj, histVars, crashed>>

\* Connection.Interface(obj, name): the name of the interface view, or
\* "nil" for the nil pointer
Interface(o, name) ==
  IF o = NoObject \/ o = NilIntro THEN "nil"
  ELSE IF ~HasInterfaceData(o, name) THEN "nil"
  ELSE name

\* a variant of CallMethod_Check that does not look the method up
CallMethod_NoCheck(o, intf, name) == "send"

\* CallMethod up to its first return: the error it returns at once, or
\* "send" when it goes on to build and send the call
CallMethod_Check(o, intf, name) ==
  IF ~HasMethodData(o, intf, name) THEN "Invalid Method" ELSE "send"

\* a caller passes *Interface(obj, intfName) to CallMethod: dereferencing
\* the nil pointer is a run-time panic; otherwise CallMethod looks the method
\* up and returns the error or goes on to NewMessage and _SendSync
CallMethod(c, intfName, name) ==
  /\ ~crashed
  /\ pc[c] = "idle" /\ initRet = "nil"
  /\ obj[c] # NoObject
  /\ LET intf == Interface(obj[c], intfName) IN
       IF intf = "nil"
         THEN /\ crashed' = TRUE
              /\ ret' = [ret EXCEPT ![c] = "panic"]
              /\ UNCHANGED <<messageSerial, serial, kind, pc>>
         ELSE IF CallMethod_Check(obj[c], intf, name) # "send"
           THEN /\ ret' = [ret EXCEPT ![c] = CallMethod_Check(obj[c], intf, name)]
                /\ UNCHANGED <<messageSerial, serial, kind, pc, crashed>>
           ELSE /\ messageSerial < MaxSerial
                /\ messageSerial' = NewMessage(messageSerial)
                /\ serial' = [serial EXCEPT ![c] = messageSerial']
                /\ kind' = [kind EXCEPT ![c] = name]
                /\ pc' = [pc EXCEPT ![c] = "reg"]
                /\ ret' = [ret EXCEPT ![c] = "unset"]
                /\ UNCHANGED crashed
  /\ UNCHANGED <<wireIn, wireOut, authResp, peerSent, connVars, regVars,
                 recvVars, dispVars, intro, obj, histVars>>

----------------------------------------------------------------------------
(* The peer *)

\* the serials of the calls written to the transport so far
Written == {wireOut[i].b : i \in {j \in 1..Len(wireOut) : wireOut[j].k = "call"}}

\* the peer writes bytes: the bus sends nothing before it has been sent a
\* call, and replies only to serials it has seen
PeerSend(bytes) ==
  /\ ~crashed
  /\ peerSent < MaxSent
  /\ Written # {}
  /\ peerSent' = peerSent + 1
  /\ wireIn' = wireIn \o bytes
  /\ stream' = stream \o bytes
  /\ UNCHANGED <<wireOut, authResp, connVars, regVars, recvVars, dispVars,
                 callVars, invoked, signalled, delivered, dispatched, crashed>>

\* the frames the peer may send now
ReplyFrames(bodies) ==
  {Msg(METHOD_RETURN, rs, <<v>>) : rs \in Written, v \in bodies}
ErrorFrames == {Msg(ERROR, rs, <<>>) : rs \in Written}
OtherFrames == {Msg(SIGNAL, 0, <<>>), Msg(METHOD_CALL, 0, <<>>)}
\* a byte that starts no frame
Stray == <<Chr("x")>>

\* the handshake responses of the peer
AuthOK == <<"O", "K", " ", "a", "1", "\r", "\n">>
AuthRejected == <<"R", "E", "J", "\r", "\n">>
AuthNoGuid == <<"O", "K", " ", "\r", "\n">>
AuthOKJunk == <<"O", "K", " ", "a", "z", "\r", "\n">>

----------------------------------------------------------------------------
(* The connection in use: Initialize against a bus that accepts the        *)
(* handshake, then two goroutines that call GetObject; the bus answers     *)
(* any call it has seen with METHOD_RETURN or ERROR frames, in any order   *)
(* and any number of times; each Read returns what has been written.       *)
Next ==
  \/ Initialize_Start
  \/ PeerAuthRespond(AuthOK)
  \/ _Auth_Read(Len(wireIn))
  \/ Initialize_Continue
  \/ \E c \in Callers : _SendSync_Register(c)
  \/ \E c \in Callers, lost \in BOOLEAN : _SendSync_Registered(c, lost)
  \/ \E c \in Callers : _SendSync_Write(c)
  \/ _MessageReceiver_Pop
  \/ _UpdateBuffer(Len(wireIn))
  \/ _RunLoop_Receive
  \/ _MessageDispatch_Lookup
  \/ _MessageDispatch_Signal
  \/ \E lost \in BOOLEAN : _MessageDispatch_Delete(lost)
  \/ \E c \in Callers : GetObject(c)
  \/ \E f \in ReplyFrames({"xml"}) \cup ErrorFrames : PeerSend(_Marshal(f))

Spec == Init /\ [][Next]_vars

\* every goroutine that can take a step eventually takes one: the receiver,
\* the run loop and each caller inside _SendSync (the peer and the start
\* of a new operation are under no obligation)
Fairness ==
  /\ WF_vars(_MessageReceiver_Pop)
  /\ WF_vars(_UpdateBuffer(Len(wireIn)))
  /\ WF_vars(_RunLoop_Receive)
  /\ WF_vars(_MessageDispatch_Lookup)
  /\ WF_vars(_MessageDispatch_Signal)
  /\ WF_vars(\E lost \in BOOLEAN : _MessageDispatch_Delete(lost))
  /\ \A c \in Callers :
       /\ WF_vars(_SendSync_Register(c))
       /\ WF_vars(\E lost \in BOOLEAN : _SendSync_Registered(c, lost))
       /\ WF_vars(_SendSync_Write(c))

SpecLive == Init /\ [][Next]_vars /\ Fairness

(* The handshake: every response of the peer, split over the Reads in      *)
(* every way; Initialize then carries on to the Hello call, which the bus  *)
(* answers with the unique name.                                           *)
NextInit ==
  \/ Initialize_Start
  \/ \E r \in {AuthOK, AuthRejected, AuthNoGuid, AuthOKJunk} : PeerAuthRespond(r)
  \/ \E k \in 1..Len(wireIn) : _Auth_Read(k)
  \/ Initialize_Continue
  \/ _SendSync_Register(Initializer)
  \/ _SendSync_Registered(Initializer, FALSE)
  \/ _SendSync_Write(Initializer)
  \/ _MessageReceiver_Pop
  \/ \E k \in 1..Len(wireIn) : _UpdateBuffer(k)
  \/ _RunLoop_Receive
  \/ _MessageDispatch_Lookup
  \/ _MessageDispatch_Signal
  \/ _MessageDispatch_Delete(FALSE)
  \/ \E f \in ReplyFrames({":1.1"}) : PeerSend(_Marshal(f))

SpecInit == Init /\ [][NextInit]_vars

(* The receive path: one goroutine calls Initialize and GetObject; the     *)
(* peer sends frames of every type and stray bytes, and each Read returns  *)
(* any non-empty part of what has been written.                            *)
NextFrames ==
  \/ Initialize_Start
  \/ PeerAuthRespond(AuthOK)
  \/ _Auth_Read(Len(wireIn))
  \/ Initialize_Continue
  \/ _SendSync_Register(Initializer)
  \/ \E lost \in BOOLEAN : _SendSync_Registered(Initializer, lost)
  \/ _SendSync_Write(Initializer)
  \/ _MessageReceiver_Pop
  \/ \E k \in 1..Len(wireIn) : _UpdateBuffer(k)
  \/ _RunLoop_Receive
  \/ _MessageDispatch_Lookup
  \/ _MessageDispatch_Signal
  \/ \E lost \in BOOLEAN : _MessageDispatch_Delete(lost)
  \/ GetObject(Initializer)
  \/ \E f \in ReplyFrames({"xml"}) \cup ErrorFrames \cup OtherFrames :
       PeerSend(_Marshal(f))
  \/ PeerSend(Stray)

SpecFrames == Init /\ [][NextFrames]_vars

(* The object model: one goroutine calls Initialize, GetObject and         *)
(* CallMethod; the bus answers with or without introspection data; each    *)
(* Read returns what has been written.                                     *)
NextObj ==
  \/ Initialize_Start
  \/ PeerAuthRespond(AuthOK)
  \/ _Auth_Read(Len(wireIn))
  \/ Initialize_Continue
  \/ _SendSync_Register(Initializer)
  \/ \E lost \in BOOLEAN : _SendSync_Registered(Initializer, lost)
  \/ _SendSync_Write(Initializer)
  \/ _MessageReceiver_Pop
  \/ _UpdateBuffer(Len(wireIn))
  \/ _RunLoop_Receive
  \/ _MessageDispatch_Lookup
  \/ _MessageDispatch_Signal
  \/ \E lost \in BOOLEAN : _MessageDispatch_Delete(lost)
  \/ GetObject(Initializer)
  \/ \E i \in IntfNames, m \in MethodNames : CallMethod(Initializer, i, m)
  \/ \E f \in ReplyFrames({"junk", "xml"}) \cup ErrorFrames :
       PeerSend(_Marshal(f))

SpecObj == Init /\ [][NextObj]_vars

----------------------------------------------------------------------------
(* Properties *)

Range(f) == {f[i] : i \in DOMAIN f}

\* a caller is inside _SendSync
Outstanding(c) == pc[c] \in {"reg", "ins", "write", "wait"}

\* C1: every reply passed to a callback carries the reply serial under which
\* that callback's call was registered, whatever the order of arrival: each
\* callback invocation so far paired a call with its own serial, and the
\* replyFunc about to signal was found under the reply serial of its message.
C1_ReplyMatchesSerial ==
  /\ \A d \in delivered : d[1] = d[2]
  /\ dfunc # NoFunc => dfunc.call = dmsg.replySerial
  /\ \A x \in DOMAIN methodCallReplies : methodCallReplies[x].call = x

\* C1 witness: with calls 2 and 3 outstanding together, the reply to call 3
\* has been delivered first and the reply to call 2 is now being delivered.
C1_Witness ==
  /\ <<3, 3>> \in delivered
  /\ dpc = "signal" /\ dmsg.replySerial = 2 /\ dfunc.call = 2
  /\ pc[dfunc.c] = "wait" /\ serial[dfunc.c] = 2

\* C2: for every call the callback runs at most once and the rendezvous is
\* signalled at most once, a reply that repeats a reply serial is dropped,
\* and a call that has returned had exactly one invocation and one signal.
C2_AtMostOnce ==
  \A s \in Serials :
    /\ invoked[s] <= 1
    /\ signalled[s] <= 1
    /\ signalled[s] = 1 => invoked[s] = 1

\* C3: the calls outstanding on the Connection have pairwise distinct
\* registry keys, and the entry under the key of an outstanding call is never
\* the closure of another call: no registration has overwritten it.
C3_SerialsDistinct ==
  /\ \A c, d \in Callers :
       (c # d /\ Outstanding(c) /\ Outstanding(d))
         => RegistryKey(serial[c]) # RegistryKey(serial[d])
  /\ \A c \in Callers :
       (Outstanding(c) /\ RegistryKey(serial[c]) \in DOMAIN methodCallReplies)
         => /\ methodCallReplies[RegistryKey(serial[c])].c = c
            /\ methodCallReplies[RegistryKey(serial[c])].call = serial[c]
            /\ pc[c] \in {"write", "wait"}

\* C3 witness: two callers wait in _SendSync, each with its own entry.
C3_Witness ==
  /\ pc["c1"] = "wait" /\ pc["c2"] = "wait"
  /\ {RegistryKey(serial["c1"]), RegistryKey(serial["c2"])}
       \subseteq DOMAIN methodCallReplies
  /\ methodCallReplies[RegistryKey(serial["c1"])].c = "c1"
  /\ methodCallReplies[RegistryKey(serial["c2"])].c = "c2"

\* C6: once the METHOD_RETURN frame for the serial of a call that waits in
\* _SendSync is on the transport, that call's callback is eventually invoked
\* and its _SendSync eventually returns.
C6_ReplyLeadsToReturn ==
  \A c \in Callers : \A s \in 1..MaxSerial :
    (pc[c] = "wait" /\ serial[c] = s /\ Hdr(METHOD_RETURN, s) \in Range(wireIn))
      ~> (invoked[s] >= 1 /\ signalled[s] >= 1)

\* C4: if the response of the peer does not match ^OK <hex digits>, _Auth
\* fails with "Auth Failed", no guid is stored and BEGIN is never written,
\* neither by _Auth nor afterwards.
C4_NoBeginOnMismatch ==
  (authResp # <<>> /\ ~RegexpOK(authResp))
    => /\ Txt("BEGIN") \notin Range(wireOut)
       /\ guid = <<>>
       /\ authErr \in {"unset", "Auth Failed"}

\* C4 witness: the response did not match, _Auth has returned its error and
\* Initialize has gone as far as waiting for the Hello reply.
C4_Witness ==
  /\ authResp # <<>> /\ ~RegexpOK(authResp)
  /\ authErr = "Auth Failed"
  /\ pc[Initializer] = "wait"

\* C5: when _Auth has failed, Initialize does nothing but return that
\* failure: it is about to act on the result of _Auth, or it has returned
\* the error.
C5_InitializeReturnsFailure ==
  authErr = "Auth Failed"
    => \/ pc[Initializer] = "goloop" /\ initRet = "unset"
       \/ initRet = "Auth Failed"

\* C7: on an Object whose introspection gave nothing, every CallMethod
\* attempted has returned "Invalid Method" (it has neither sent a call nor
\* panicked).
C7_CallOnEmptyObject ==
  \A c \in Callers :
    (obj[c] = NilIntro /\ ret[c] # "unset") => ret[c] = "Invalid Method"

\* C8: a CallMethod that returns "Invalid Method" registers nothing, writes
\* nothing, takes no serial and leaves its caller where it was; and no
\* CallMethod goes on to send a call for a method name that the cached
\* metadata does not hold.
C8_InvalidMethodNoEffect ==
  [][\A c \in Callers :
       /\ (ret'[c] = "Invalid Method" /\ ret[c] # "Invalid Method")
            => UNCHANGED <<methodCallReplies, inReg, raced, wireOut,
                           messageSerial, pc, kind, serial>>
       /\ (kind'[c] \in MethodNames /\ kind[c] \notin MethodNames)
            => \E i \in IntfNames : HasMethodData(obj[c], i, kind'[c])]_vars

\* C8 witness: on an Object that has the interface, a CallMethod with a
\* method name that is not in it has returned "Invalid Method".
C8_Witness ==
  /\ obj[Initializer] = EchoIntro
  /\ ret[Initializer] = "Invalid Method"
  /\ pc[Initializer] = "idle"

\* C9: once Initialize has completed after a handshake that succeeded and a
\* Hello that was answered with the unique name ":1.1", uniqName is that
\* name.
C9_UniqNameAfterHello ==
  (initRet = "nil" /\ authErr = "nil" /\ <<1, 1>> \in delivered)
    => uniqName = ":1.1"

\* C10: a _PopMessage that parses a frame removes from the buffer exactly
\* the n bytes _Unmarshal reported and hands that frame on; one that does not
\* (the buffer holds a partial frame, or bytes that are no frame) leaves the
\* buffer as it was and hands on nothing.
C10_PopEffect ==
  [][(rpc = "pop" /\ rpc' # "pop")
       => LET u == _Unmarshal(buffer) IN
            IF u.err = "nil"
              THEN /\ Len(buffer) >= u.n
                   /\ buffer = SubSeq(buffer, 1, u.n) \o buffer'
                   /\ rmsg' = u.msg /\ rpc' = "send"
              ELSE /\ buffer' = buffer
                   /\ rmsg' = NoMsg /\ rpc' = "read"]_vars

\* C10 witness: a pop has parsed a frame and left in the buffer exactly the
\* bytes behind it, which are the beginning of the next frame.
C10_Witness ==
  /\ rpc = "send" /\ rmsg # NoMsg
  /\ buffer # <<>> /\ _Unmarshal(buffer).err = "incomplete"

\* the messages _MessageReceiver has popped so far, in order: those handed to
\* _RunLoop and the one it holds for msgChan
Popped == dispatched \o (IF rpc = "send" THEN <<rmsg>> ELSE <<>>)

IsPrefix(a, b) == Len(a) <= Len(b) /\ a = SubSeq(b, 1, Len(a))

RECURSIVE MarshalAll(_)
MarshalAll(ms) ==
  IF ms = <<>> THEN <<>> ELSE _Marshal(Head(ms)) \o MarshalAll(Tail(ms))

\* C11: however the byte stream is split into Reads, the messages popped are
\* the messages that popping the whole stream at once yields, in the same
\* order: always a prefix of them, all of them once every byte has been read
\* and the receiver is back in Read; and the pops have consumed exactly the
\* bytes of the messages popped (what was popped, what the buffer holds and
\* what is unread make up the stream).
C11_SplitIndependent ==
  /\ IsPrefix(Popped, PopAll(stream))
  /\ (rpc = "read" /\ wireIn = <<>>) => Popped = PopAll(stream)
  /\ rpc # "off" => MarshalAll(Popped) \o buffer \o wireIn = stream

\* C11 witness: after one frame has gone through, the next one is arriving in
\* pieces: the buffer holds its first byte only and the receiver is back in
\* Read for the rest.
C11_Witness ==
  /\ Len(dispatched) >= 1
  /\ rpc = "read" /\ Len(buffer) = 1 /\ _Unmarshal(buffer).err = "incomplete"
  /\ wireIn # <<>>

\* C12: the accesses to methodCallReplies exclude one another: at no time are
\* two goroutines (two callers, or a caller and the run loop) inside a map
\* operation on it.
C12_MutualExclusion == Cardinality(inReg) <= 1

\* C13: an entry is removed together with its invocation: once the callback
\* registered for a serial has run (and so before its caller can have
\* resumed), the registry no longer holds the entry of that serial.
C13_RemovedOnInvocation ==
  \A s \in Serials :
    invoked[s] >= 1
      => ~(/\ RegistryKey(s) \in DOMAIN methodCallReplies
           /\ methodCallReplies[RegistryKey(s)].call = s)

\* C14: bytes at the front of the buffer that are no frame are not taken for
\* a frame that is still arriving: the receiver never goes back to Read on
\* a buffer whose front is malformed.
C14_MalformedNotRetried ==
  ~(rpc = "read" /\ _Unmarshal(buffer).err = "malformed")

\* C15: messages are dispatched in the order of their frames in the byte
\* stream, one at a time: the messages _MessageDispatch has been entered with
\* are always the first frames of the stream, in order, and _MessageDispatch
\* is entered only when the run loop is back from the dispatch before.
C15_WireOrder ==
  [][/\ IsPrefix(dispatched', PopAll(stream'))
     /\ dispatched' # dispatched
          => (dpc = "recv" /\ dmsg = NoMsg /\ dfunc = NoFunc)]_vars

\* C15 witness: two different frames have been dispatched, the second of
\* them a reply whose dispatch has run its callback, and a third is held by
\* the receiver until that dispatch is over.
C15_Witness ==
  /\ Len(dispatched) = 2 /\ dispatched[1] # dispatched[2]
  /\ dpc = "signal" /\ rpc = "send"

\* C16: the receiver is in a Read of the transport only when the buffer holds
\* no complete frame and every message popped has been handed to the run
\* loop; and each Read is issued from such a state.
C16_DrainBeforeRead ==
  [][/\ rpc' = "read" => (_Unmarshal(buffer').err # "nil" /\ rmsg' = NoMsg)
     /\ (rpc = "read" /\ rpc' # "read")
          => (_Unmarshal(buffer).err # "nil" /\ rmsg = NoMsg)]_vars

\* C16 witness: a frame has been handed to dispatch, the buffer still holds a
\* complete frame from the same Read, more bytes wait on the transport, and
\* the receiver is about to pop, not to read.
C16_Witness ==
  /\ Len(dispatched) >= 1
  /\ rpc = "pop" /\ _Unmarshal(buffer).err = "nil"
  /\ wireIn # <<>>

\* C17: the dispatch of a frame that is not a METHOD_RETURN (an ERROR, even
\* one for an outstanding call, a METHOD_CALL, a SIGNAL), and the dispatch
\* of a METHOD_RETURN whose reply serial the lookup does not find, change
\* nothing in the registry, run no callback, signal no caller and resume no
\* caller, and end with the run loop back at msgChan.
C17_UnmatchedNoEffect ==
  [][((dispatched' # dispatched /\ rmsg.type # METHOD_RETURN)
       \/ (dpc = "lookup" /\ dpc' # "lookup"
             /\ dmsg.replySerial \notin DOMAIN methodCallReplies))
      => /\ UNCHANGED <<methodCallReplies, invoked, signalled, delivered,
                        pc, kind, serial, intro, obj, ret>>
         /\ dpc' = "recv"]_vars

\* C17 witness: an ERROR frame for the call that waits and a METHOD_RETURN
\* for a reply serial that was no longer registered have both been
\* dispatched; the call still waits, its entry is in the registry, its
\* callback has not run, and the run loop is back at msgChan.
C17_Witness ==
  /\ pc[Initializer] = "wait" /\ serial[Initializer] = 2
  /\ Msg(ERROR, 2, <<>>) \in Range(dispatched)
  /\ dispatched[Len(dispatched)].type = METHOD_RETURN
  /\ dispatched[Len(dispatched)].replySerial = 1
  /\ 2 \in DOMAIN methodCallReplies /\ 1 \notin DOMAIN methodCallReplies
  /\ invoked[2] = 0 /\ invoked[1] = 1
  /\ dpc = "recv"

\* C18: when the line the peer sent matches ^OK <hex digits>, _Auth succeeds
\* and stores the whole guid of that line, however the line was split over
\* the Reads of the transport.
C18_SplitHandshake ==
  (RegexpOK(authResp) /\ authErr # "unset")
    => (authErr = "nil" /\ guid = Group1(authResp))

\* C19: a call frame is on the transport, or the receiver is in a Read of
\* the transport, only after BEGIN has been written.
C19_FramingAfterBegin ==
  (Written # {} \/ rpc = "read") => Txt("BEGIN") \in Range(wireOut)

\* C20: a call whose bytes have been written and whose callback has not run
\* yet has its entry in the registry, so that the reply to it is matched
\* whenever it arrives.
C20_RegisteredBeforeWrite ==
  \A c \in Callers :
    (pc[c] = "wait" /\ invoked[serial[c]] = 0)
      => /\ RegistryKey(serial[c]) \in DOMAIN methodCallReplies
         /\ methodCallReplies[RegistryKey(serial[c])].c = c

====
